---------------------------- MODULE Spec2Model ----------------------------
(***************************************************************************)
(* A model of decompiler/codegen.py: the SourceGenerator visitor that      *)
(* renders a syntax tree back into source text.                            *)
(*                                                                         *)
(* The recursive visit is unfolded into a state machine: `todo' is the     *)
(* continuation of the recursive descent (what the active handlers still   *)
(* have to do, innermost first).  A handler is one action up to its first  *)
(* recursive self.visit(...); the code it runs between and after its       *)
(* recursive calls is pushed on `todo' as steps, which fire in order.      *)
(* Exactly one action is enabled while a render is running.                *)
(*                                                                         *)
(* The output buffer self.result is a list of fragments; a fragment is one *)
(* token here ("" is the empty fragment, which makes the list non-empty    *)
(* without adding text; '\n' * n is n fragments "\n").                     *)
(***************************************************************************)
EXTENDS Integers, Sequences, FiniteSets, TLC

VARIABLES
    tree,                  \* the node handed to to_source
    status,                \* "running" | "returned" | "raised"
    output,                \* the text process() returned (joined fragments)
    todo,                  \* continuation of the recursive visit
    saved_b,               \* the locals `b' of the active handlers (innermost first)
    add_line_information,
    correct_line_numbers,
    result,
    indentation,
    new_lines,
    precedence_stack,
    precedence_ltr,
    line_number,
    can_newline,
    after_block,
    force_newline,
    \* history (never read by the renderer)
    paren_stack,           \* per precedence entry: text position of its '(' or 0
    paren_pairs,           \* <<open, close>> text positions, one per prec_end
    parens,                \* paths of the nodes whose prec_start wrote '('
    breaks,                \* one record per line break written by maybe_break
    marks                  \* one record per statement boundary (newline call)

vars == <<tree, status, output, todo, saved_b, add_line_information,
          correct_line_numbers, result, indentation, new_lines,
          precedence_stack, precedence_ltr, line_number, can_newline,
          after_block, force_newline, paren_stack, paren_pairs, parens,
          breaks, marks>>

---------------------------------------------------------------------------
\* Bounds of the checked inputs.

\* Operator nodes in an expression rendered on its own.
MaxOps == 2

\* Largest recorded line number of a statement.
MaxLine == 3

\* Statements in a module body.
MaxStmts == 2

---------------------------------------------------------------------------
\* Small helpers.

Max(a, b) == IF a >= b THEN a ELSE b

Last(q) == q[Len(q)]

Front(q) == SubSeq(q, 1, Len(q) - 1)

Rep(x, n) == [i \in 1..n |-> x]

RECURSIVE Concat(_)
Concat(qs) == IF qs = <<>> THEN <<>> ELSE Head(qs) \o Concat(Tail(qs))

NonEmptyFragment(t) == t # ""

\* ''.join(self.result)
Join(res) == SelectSeq(res, NonEmptyFragment)

---------------------------------------------------------------------------
\* Nodes.  Every node carries every field, so that nodes compare.
\*   kind    the node class
\*   ops     operator names (BinOp, BoolOp, UnaryOp: one; Compare: one per
\*           comparator), the identifier of a Name, the populated-field
\*           flags of a Raise
\*   lineno  recorded line (0: the node has none)
\*   nargs   Lambda: len(args.args)
\*   kids    child expressions in field order
\*   body, orelse   child statement lists
\*   decorator_list  FunctionDef: the decorator expressions

Node(kind, ops, lineno, nargs, kids, body, orelse) ==
    [kind |-> kind, ops |-> ops, lineno |-> lineno, nargs |-> nargs,
     kids |-> kids, body |-> body, orelse |-> orelse, decorator_list |-> <<>>]

NoNode == Node("None", <<>>, 0, 0, <<>>, <<>>, <<>>)

Name(id, l) == Node("Name", <<id>>, l, 0, <<>>, <<>>, <<>>)
BinOp(op, left, right, l) == Node("BinOp", <<op>>, l, 0, <<left, right>>, <<>>, <<>>)
BoolOp(op, values, l) == Node("BoolOp", <<op>>, l, 0, values, <<>>, <<>>)
\* kids = <<left>> \o comparators
Compare(cmpops, operands, l) == Node("Compare", cmpops, l, 0, operands, <<>>, <<>>)
UnaryOp(op, operand, l) == Node("UnaryOp", <<op>>, l, 0, <<operand>>, <<>>, <<>>)
\* kids = <<test, body, orelse>>
IfExp(test, then, else, l) == Node("IfExp", <<>>, l, 0, <<test, then, else>>, <<>>, <<>>)
\* kids = args.args \o args.defaults \o <<body>>; vararg and kwarg are None
Lambda(args, defaults, lbody, l) ==
    Node("Lambda", <<>>, l, Len(args), args \o defaults \o <<lbody>>, <<>>, <<>>)
\* kids = <<func>> \o args; keywords, starargs and kwargs are empty
Call(func, args, l) == Node("Call", <<>>, l, 0, <<func>> \o args, <<>>, <<>>)
List(elts, l) == Node("List", <<>>, l, 0, elts, <<>>, <<>>)
\* A node class SourceGenerator has no visit_ method for (Await, Try, ...).
Unknown(children, l) == Node("Unknown", <<>>, l, 0, children, <<>>, <<>>)

Module(stmts) == Node("Module", <<>>, 0, 0, <<>>, stmts, <<>>)
Expr(value, l) == Node("Expr", <<>>, l, 0, <<value>>, <<>>, <<>>)
Pass(l) == Node("Pass", <<>>, l, 0, <<>>, <<>>, <<>>)
\* ops names the populated fields (of exc, cause or of type, inst, tback),
\* kids holds their values in that order; every other field is None.
RaiseStmt(fields, values, l) == Node("Raise", fields, l, 0, values, <<>>, <<>>)
If(test, stmts, else, l) == Node("If", <<>>, l, 0, <<test>>, stmts, else)
\* kids = args.args \o args.defaults; vararg and kwarg are None
FunctionDef(name, args, defaults, decorators, stmts, l) ==
    [Node("FunctionDef", <<name>>, l, Len(args), args \o defaults, stmts, <<>>)
        EXCEPT !.decorator_list = decorators]

---------------------------------------------------------------------------
\* Operator tables.

BOOLOP_SYMBOLS ==
    [And |-> <<" and ", 4>>, Or |-> <<" or ", 3>>]

BINOP_SYMBOLS ==
    [Add |-> <<" + ", 11>>, Sub |-> <<" - ", 11>>, Mult |-> <<" * ", 12>>,
     Div |-> <<" / ", 12>>, FloorDiv |-> <<" // ", 12>>, Mod |-> <<" % ", 12>>,
     Pow |-> <<" ** ", 14>>, LShift |-> <<" << ", 10>>, RShift |-> <<" >> ", 10>>,
     BitOr |-> <<" | ", 7>>, BitAnd |-> <<" & ", 9>>, BitXor |-> <<" ^ ", 8>>]

CMPOP_SYMBOLS ==
    [Eq |-> <<" == ", 6>>, Gt |-> <<" > ", 6>>, GtE |-> <<" >= ", 6>>,
     In |-> <<" in ", 6>>, Is |-> <<" is ", 6>>, IsNot |-> <<" is not ", 6>>,
     Lt |-> <<" < ", 6>>, LtE |-> <<" <= ", 6>>, NotEq |-> <<" != ", 6>>,
     NotIn |-> <<" not in ", 6>>]

UNARYOP_SYMBOLS ==
    [Invert |-> <<"~", 13>>, Not |-> <<"not ", 5>>, UAdd |-> <<"+", 13>>,
     USub |-> <<"-", 13>>]

BLOCK_NODES == {"If", "For", "While", "With", "TryExcept", "TryFinally",
                "FunctionDef", "ClassDef"}

INDENT_WITH == "    "

---------------------------------------------------------------------------
\* The renderer's state as one value, so that the calls a handler makes
\* compose.

Self ==
    [result |-> result, indentation |-> indentation, new_lines |-> new_lines,
     precedence_stack |-> precedence_stack, precedence_ltr |-> precedence_ltr,
     line_number |-> line_number, can_newline |-> can_newline,
     after_block |-> after_block, force_newline |-> force_newline,
     paren_stack |-> paren_stack, paren_pairs |-> paren_pairs,
     parens |-> parens, breaks |-> breaks, marks |-> marks]

Becomes(s) ==
    /\ result' = s.result
    /\ indentation' = s.indentation
    /\ new_lines' = s.new_lines
    /\ precedence_stack' = s.precedence_stack
    /\ precedence_ltr' = s.precedence_ltr
    /\ line_number' = s.line_number
    /\ can_newline' = s.can_newline
    /\ after_block' = s.after_block
    /\ force_newline' = s.force_newline
    /\ paren_stack' = s.paren_stack
    /\ paren_pairs' = s.paren_pairs
    /\ parens' = s.parens
    /\ breaks' = s.breaks
    /\ marks' = s.marks

\* Text position of the next token written.
Pos(s) == Len(Join(s.result)) + 1

\* '\n' * n as fragments (n <= 0 gives the empty string).
Newlines(n) == IF n > 0 THEN Rep("\n", n) ELSE <<"">>

\* '\\\n' * n
EscapedNewlines(n) == IF n > 0 THEN Rep("\\\n", n) ELSE <<"">>

\* self.indent_with * k
Indent(k) == IF k > 0 THEN Rep(INDENT_WITH, k) ELSE <<"">>

\* Brackets written so far and not yet closed.
\* ('def %s(' is one fragment, and so is '):'.)
FunctionNames == {"f"}
Openers == {"(", "[", "{"} \cup {"def " \o f \o "(" : f \in FunctionNames}
Closers == {")", "]", "}", "):"}
IsOpener(t) == t \in Openers
IsCloser(t) == t \in Closers
OpenBrackets(res) == Len(SelectSeq(res, IsOpener)) - Len(SelectSeq(res, IsCloser))

---------------------------------------------------------------------------
\* write, newline, maybe_break.

\* write without the pending newlines.
WriteNoNewlines(s, x) ==
    IF s.new_lines # 0
    THEN [s EXCEPT !.result = @ \o Indent(s.indentation) \o <<x>>,
                   !.new_lines = 0]
    ELSE [s EXCEPT !.result = Append(@, x)]

Write(s, x) ==
    IF s.new_lines # 0
    THEN [s EXCEPT
            !.result = @ \o (IF s.result # <<>> \/ correct_line_numbers
                             THEN Newlines(s.new_lines) ELSE <<>>)
                         \o Indent(s.indentation) \o <<x>>,
            !.new_lines = 0]
    ELSE [s EXCEPT !.result = Append(@, x)]

\* newline without the clamp of a negative count (simple statements).
NewlineNoClamp(s, hasNode, node, extra, isBody) ==
    IF ~correct_line_numbers
    THEN LET s1 == [s EXCEPT !.new_lines = Max(@, 1 + extra)]
         IN  IF hasNode /\ add_line_information
             THEN [Write(s1, "# line: " \o ToString(node.lineno))
                     EXCEPT !.new_lines = 1]
             ELSE s1
    ELSE IF extra # 0
    THEN s
    ELSE IF ~hasNode
    THEN [s EXCEPT !.new_lines = 1, !.line_number = @ + 1]
    ELSE IF isBody
    THEN LET nl == node.lineno - s.line_number + s.new_lines
         IN  [s EXCEPT !.new_lines = IF nl <= 0 /\ s.result # <<>> THEN 1 ELSE nl,
                       !.line_number = node.lineno]
    ELSE LET nl == node.lineno - s.line_number + s.new_lines
             s1 == [s EXCEPT !.new_lines = nl,
                             !.line_number = node.lineno]
             s2 == IF s1.new_lines = 0
                   THEN IF s1.force_newline
                        THEN [s1 EXCEPT !.new_lines = 1]
                        ELSE IF ~s1.after_block
                        THEN Write(s1, "; ")
                        ELSE IF s1.result # <<>>
                        THEN Write(s1, " ")
                        ELSE s1
                   ELSE s1
         IN  [s2 EXCEPT !.after_block = FALSE, !.force_newline = FALSE]

\* newline that lets a header follow on the line of the previous statement.
NewlineSameLineHeader(s, hasNode, node, extra, isBody) ==
    IF ~correct_line_numbers
    THEN LET s1 == [s EXCEPT !.new_lines = Max(@, 1 + extra)]
         IN  IF hasNode /\ add_line_information
             THEN [Write(s1, "# line: " \o ToString(node.lineno))
                     EXCEPT !.new_lines = 1]
             ELSE s1
    ELSE IF extra # 0
    THEN s
    ELSE IF ~hasNode
    THEN [s EXCEPT !.new_lines = 1, !.line_number = @ + 1]
    ELSE IF isBody
    THEN LET nl == node.lineno - s.line_number + s.new_lines
         IN  [s EXCEPT !.new_lines = IF nl < 0 THEN 0 ELSE nl,
                       !.line_number = node.lineno]
    ELSE LET nl == node.lineno - s.line_number + s.new_lines
             s1 == [s EXCEPT !.new_lines = IF nl < 0 THEN 0 ELSE nl,
                             !.line_number = node.lineno]
             s2 == IF s1.new_lines = 0
                   THEN IF s1.force_newline
                        THEN [s1 EXCEPT !.new_lines = 1]
                        ELSE IF ~s1.after_block
                        THEN Write(s1, "; ")
                        ELSE IF s1.result # <<>>
                        THEN Write(s1, " ")
                        ELSE s1
                   ELSE s1
         IN  [s2 EXCEPT !.after_block = FALSE, !.force_newline = FALSE]

\* newline(node, extra, body); hasNode is `node is not None'.
Newline(s, hasNode, node, extra, isBody) ==
    IF ~correct_line_numbers
    THEN LET s1 == [s EXCEPT !.new_lines = Max(@, 1 + extra)]
         IN  IF hasNode /\ add_line_information
             THEN [Write(s1, "# line: " \o ToString(node.lineno))
                     EXCEPT !.new_lines = 1]
             ELSE s1
    ELSE IF extra # 0
    THEN s
    ELSE IF ~hasNode
    THEN [s EXCEPT !.new_lines = 1, !.line_number = @ + 1]
    ELSE IF isBody
    THEN LET nl == node.lineno - s.line_number + s.new_lines
         IN  [s EXCEPT !.new_lines = IF nl <= 0 /\ s.result # <<>> THEN 1 ELSE nl,
                       !.line_number = node.lineno]
    ELSE LET nl == node.lineno - s.line_number + s.new_lines
             s1 == [s EXCEPT !.new_lines = IF nl < 0 THEN 0 ELSE nl,
                             !.line_number = node.lineno]
             s2 == IF s1.new_lines = 0
                   THEN IF s1.force_newline
                        THEN [s1 EXCEPT !.new_lines = 1]
                        ELSE IF ~s1.after_block
                        THEN Write(s1, "; ")
                        ELSE IF s1.result # <<>>
                        THEN Write(s1, " ")
                        ELSE s1
                   ELSE s1
         IN  [s2 EXCEPT !.after_block = FALSE, !.force_newline = FALSE]

\* maybe_break(node)
MaybeBreak(s, node) ==
    IF ~correct_line_numbers
    THEN s
    ELSE LET pending == s.new_lines
             s1 == IF s.new_lines # 0 THEN Write(s, "") ELSE s
         IN  IF node.lineno > s1.line_number
             THEN LET s2 == Newline(s1, TRUE, node, 0, FALSE)
                      brk == [esc |-> ~s2.can_newline,
                              open |-> OpenBrackets(s2.result),
                              n |-> s2.new_lines,
                              lineno |-> node.lineno,
                              line |-> s2.line_number]
                  IN  IF ~s2.can_newline
                      THEN [s2 EXCEPT
                              !.result = @ \o EscapedNewlines(s2.new_lines)
                                           \o (IF pending = 0
                                               THEN Indent(s2.indentation + 1)
                                               ELSE <<>>),
                              !.new_lines = 0,
                              !.breaks = Append(@, brk)]
                      ELSE [s2 EXCEPT
                              !.result = @ \o Newlines(s2.new_lines)
                                           \o Indent(s2.indentation + 1),
                              !.new_lines = 0,
                              !.breaks = Append(@, brk)]
             ELSE s1

---------------------------------------------------------------------------
\* Precedence management.  precedence_ltr holds "None", "True" or "False".

PrecStart(s, value, ltr) ==
    LET wrote == value < Last(s.precedence_stack)
        s1 == IF wrote THEN Write(s, "(") ELSE s
    IN  [s1 EXCEPT
           !.precedence_ltr = Append(@, ltr),
           !.precedence_stack = Append(@, IF ltr = "False" THEN value + 1 ELSE value),
           !.paren_stack = Append(@, IF wrote THEN Pos(s1) - 1 ELSE 0)]

PrecMiddleNoBias(s) == s

PrecMiddle(s) ==
    LET top == Len(s.precedence_stack)
    IN  IF Last(s.precedence_ltr) = "True"
        THEN [s EXCEPT !.precedence_stack[top] = @ + 1]
        ELSE IF Last(s.precedence_ltr) = "False"
        THEN [s EXCEPT !.precedence_stack[top] = @ - 1]
        ELSE s

PrecEndKeepsBias(s) ==
    LET popped == Last(s.precedence_stack)
        rest == Front(s.precedence_stack)
        wrote == popped < Last(rest)
        s1 == [s EXCEPT !.precedence_ltr = Front(@),
                        !.precedence_stack = rest,
                        !.paren_stack = Front(@)]
        s2 == IF wrote THEN Write(s1, ")") ELSE s1
    IN  [s2 EXCEPT !.paren_pairs =
            @ \cup {<<Last(s.paren_stack), IF wrote THEN Pos(s2) - 1 ELSE 0>>}]

PrecEnd(s) ==
    LET top == Len(s.precedence_stack)
        stack == IF Last(s.precedence_ltr) = "True"
                 THEN [s.precedence_stack EXCEPT ![top] = @ - 1]
                 ELSE s.precedence_stack
        popped == Last(stack)
        rest == Front(stack)
        wrote == popped < Last(rest)
        s1 == [s EXCEPT !.precedence_ltr = Front(@),
                        !.precedence_stack = rest,
                        !.paren_stack = Front(@)]
        s2 == IF wrote THEN Write(s1, ")") ELSE s1
    IN  [s2 EXCEPT !.paren_pairs =
            @ \cup {<<Last(s.paren_stack), IF wrote THEN Pos(s2) - 1 ELSE 0>>}]

---------------------------------------------------------------------------
\* The continuation.  An item is a recursive visit still to make, or a
\* piece of a handler's code that runs after one:
\*   visit n        self.visit(n); p is the path of n from the root
\*   write a        self.write(a)
\*   maybe_break n  self.maybe_break(n)
\*   prec_middle, prec_end, enter_bracket, exit_bracket, ...

\* A path names a node by the steps from the root, a step being
\* <<field, i>> for the i-th node of that field.
Child(t, c) ==
    CASE c[1] = "kids" -> t.kids[c[2]]
      [] c[1] = "body" -> t.body[c[2]]
      [] c[1] = "orelse" -> t.orelse[c[2]]
      [] c[1] = "decorator_list" -> t.decorator_list[c[2]]

ChildSteps(t) ==
    {<<"kids", i>> : i \in 1..Len(t.kids)}
    \cup {<<"body", i>> : i \in 1..Len(t.body)}
    \cup {<<"orelse", i>> : i \in 1..Len(t.orelse)}
    \cup {<<"decorator_list", i>> : i \in 1..Len(t.decorator_list)}

Kid(p, i) == Append(p, <<"kids", i>>)
InBody(p, i) == Append(p, <<"body", i>>)
InOrelse(p, i) == Append(p, <<"orelse", i>>)
InDecorators(p, i) == Append(p, <<"decorator_list", i>>)

Item(t, n, p, a) == [t |-> t, n |-> n, p |-> p, a |-> a]
V(n, p) == Item("visit", n, p, "")
W(a) == Item("write", NoNode, <<>>, a)
MB(n) == Item("maybe_break", n, <<>>, "")
Step(t) == Item(t, NoNode, <<>>, "")

Running == status = "running" /\ todo # <<>>
Top == Head(todo)
Visiting(kind) == Running /\ Top.t = "visit" /\ Top.n.kind = kind
At(t) == Running /\ Top.t = t

\* The handler (or step) at the head of the continuation ends in state s
\* and leaves `items' to do before its caller goes on.
Continue(s, items) ==
    /\ Becomes(s)
    /\ todo' = items \o Tail(todo)
    /\ UNCHANGED <<tree, status, output, add_line_information, correct_line_numbers>>

\* An exception leaves the handler and every caller up to to_source.
Raise(s) ==
    /\ Becomes(s)
    /\ todo' = <<>>
    /\ status' = "raised"
    /\ UNCHANGED <<tree, output, add_line_information, correct_line_numbers>>

\* History: the node at path p was parenthesized by its prec_start.
NoteParen(s, p) ==
    IF Last(s.paren_stack) > 0 THEN [s EXCEPT !.parens = @ \cup {p}] ELSE s

\* for idx, item in enumerate(items): if idx: write(COMMA); visit(item)
\* (the items are kids[from..to] of the node at path p).
CommaSeparated(n, p, from, to) ==
    Concat([i \in 1..(to - from + 1) |->
              (IF i > 1 THEN <<W(", ")>> ELSE <<>>)
              \o <<V(n.kids[from + i - 1], Kid(p, from + i - 1))>>])

---------------------------------------------------------------------------
\* Expression handlers.

Visit_Name ==
    /\ Visiting("Name")
    /\ Continue(Write(MaybeBreak(Self, Top.n), Top.n.ops[1]), <<>>)
    /\ UNCHANGED saved_b

Visit_BinOp ==
    /\ Visiting("BinOp")
    /\ LET n == Top.n
           p == Top.p
           op == n.ops[1]
           s1 == MaybeBreak(Self, n)
       IN  IF op \notin DOMAIN BINOP_SYMBOLS
           THEN Raise(s1)      \* KeyError
           ELSE LET symbol == BINOP_SYMBOLS[op][1]
                    precedence == BINOP_SYMBOLS[op][2]
                    s2 == NoteParen(PrecStart(s1, precedence,
                                    IF op # "Pow" THEN "True" ELSE "False"), p)
                IN  Continue(s2, <<V(n.kids[1], Kid(p, 1)), W(symbol),
                                   Step("prec_middle"),
                                   V(n.kids[2], Kid(p, 2)), Step("prec_end")>>)
    /\ UNCHANGED saved_b

Visit_BoolOp ==
    /\ Visiting("BoolOp")
    /\ LET n == Top.n
           p == Top.p
           symbol == BOOLOP_SYMBOLS[n.ops[1]][1]
           precedence == BOOLOP_SYMBOLS[n.ops[1]][2]
           s1 == NoteParen(PrecStart(MaybeBreak(Self, n), precedence, "None"), p)
       IN  Continue(s1,
              Concat([i \in 1..Len(n.kids) |->
                        (IF i > 1 THEN <<W(symbol)>> ELSE <<>>)
                        \o <<V(n.kids[i], Kid(p, i))>>])
              \o <<Step("prec_end")>>)
    /\ UNCHANGED saved_b

Visit_Compare ==
    /\ Visiting("Compare")
    /\ LET n == Top.n
           p == Top.p
           s1 == NoteParen(PrecStart(MaybeBreak(Self, n), 6, "None"), p)
       IN  Continue(s1,
              <<V(n.kids[1], Kid(p, 1))>>
              \o Concat([i \in 1..Len(n.ops) |->
                           <<W(CMPOP_SYMBOLS[n.ops[i]][1]),
                             V(n.kids[i + 1], Kid(p, i + 1))>>])
              \o <<Step("prec_end")>>)
    /\ UNCHANGED saved_b

Visit_UnaryOp ==
    /\ Visiting("UnaryOp")
    /\ LET n == Top.n
           p == Top.p
           symbol == UNARYOP_SYMBOLS[n.ops[1]][1]
           precedence == UNARYOP_SYMBOLS[n.ops[1]][2]
           s1 == NoteParen(PrecStart(Self, precedence, "None"), p)
       IN  Continue(Write(s1, symbol),
                    <<V(n.kids[1], Kid(p, 1)), Step("prec_end")>>)
    /\ UNCHANGED saved_b

Visit_IfExp ==
    /\ Visiting("IfExp")
    /\ LET n == Top.n
           p == Top.p
           s1 == NoteParen(PrecStart(MaybeBreak(Self, n), 2, "False"), p)
       IN  Continue(s1, <<V(n.kids[2], Kid(p, 2)), W(" if "),
                          V(n.kids[1], Kid(p, 1)), Step("prec_middle"),
                          W(" else "), V(n.kids[3], Kid(p, 3)),
                          Step("prec_end")>>)
    /\ UNCHANGED saved_b

\* signature(node), after its first two lines: the parameters of the node at
\* path p, whose kids start with args \o defaults.
Signature(n, p, ndefaults) ==
    LET nargs == n.nargs
        padding == nargs - ndefaults
    IN  Concat([i \in 1..nargs |->
                  (IF i > 1 THEN <<W(", ")>> ELSE <<>>)
                  \o (IF i > padding THEN <<MB(n.kids[nargs + i - padding])>> ELSE <<>>)
                  \o <<V(n.kids[i], Kid(p, i))>>
                  \o (IF i > padding
                      THEN <<W("="), V(n.kids[nargs + i - padding],
                                       Kid(p, nargs + i - padding))>>
                      ELSE <<>>)])
        \o <<Step("exit_bracket")>>

nargsOf(n) == n.nargs

Visit_Lambda ==
    /\ Visiting("Lambda")
    /\ LET n == Top.n
           p == Top.p
           s1 == NoteParen(PrecStart(MaybeBreak(Self, n), 1, "None"), p)
           s2 == Write(s1, "lambda ")
       IN  /\ saved_b' = <<s2.can_newline>> \o saved_b
           /\ Continue([s2 EXCEPT !.can_newline = TRUE],
                       Signature(n, p, Len(n.kids) - 1 - nargsOf(n))
                       \o <<W(": "), V(Last(n.kids), Kid(p, Len(n.kids))),
                            Step("prec_end")>>)

Visit_Call ==
    /\ Visiting("Call")
    /\ LET n == Top.n
           p == Top.p
           s1 == PrecStart(Self, 15, "None")
       IN  Continue(s1,
              <<V(n.kids[1], Kid(p, 1)), Step("prec_end"), W("("),
                Step("enter_bracket")>>
              \o Concat([i \in 1..(Len(n.kids) - 1) |->
                           (IF i > 1 THEN <<W(", ")>> ELSE <<>>)
                           \o <<MB(n.kids[i + 1]),
                                V(n.kids[i + 1], Kid(p, i + 1))>>])
              \o <<Step("exit_bracket"), W(")")>>)
    /\ UNCHANGED saved_b

Visit_List ==
    /\ Visiting("List")
    /\ LET n == Top.n
           s1 == Write(Self, "[")
       IN  /\ saved_b' = <<s1.can_newline>> \o saved_b
           /\ Continue([s1 EXCEPT !.can_newline = TRUE],
                       CommaSeparated(n, Top.p, 1, Len(n.kids))
                       \o <<Step("exit_bracket"), W("]")>>)

---------------------------------------------------------------------------
\* The code of a handler between and after its recursive visits.

Step_Write ==
    /\ At("write")
    /\ Continue(Write(Self, Top.a), <<>>)
    /\ UNCHANGED saved_b

Step_MaybeBreak ==
    /\ At("maybe_break")
    /\ Continue(MaybeBreak(Self, Top.n), <<>>)
    /\ UNCHANGED saved_b

Step_PrecMiddle ==
    /\ At("prec_middle")
    /\ Continue(PrecMiddle(Self), <<>>)
    /\ UNCHANGED saved_b

Step_PrecEnd ==
    /\ At("prec_end")
    /\ Continue(PrecEnd(Self), <<>>)
    /\ UNCHANGED saved_b

\* b = self.can_newline; self.can_newline = True
Step_EnterBracket ==
    /\ At("enter_bracket")
    /\ saved_b' = <<can_newline>> \o saved_b
    /\ Continue([Self EXCEPT !.can_newline = TRUE], <<>>)

\* self.can_newline = b
Step_ExitBracket ==
    /\ At("exit_bracket")
    /\ saved_b' = Tail(saved_b)
    /\ Continue([Self EXCEPT !.can_newline = Head(saved_b)], <<>>)

\* History: a statement boundary.  newline was called for the statement
\* (header, decorator, elif test, or else clause when node is None) at path
\* p, in state s0, and returned in state s1.
\*   before, pending   line_number and new_lines at the call
\*   forced, follows_colon, empty   force_newline, after_block, `not result'
\*   pos               text position of whatever is written next
\*   depth             indentation at the call
\*   count, after      new_lines and line_number at the return
Marked(s0, s1, p, kind, node) ==
    [s1 EXCEPT !.marks = Append(@,
        [p |-> p, kind |-> kind, lineno |-> node.lineno,
         before |-> s0.line_number, pending |-> s0.new_lines,
         forced |-> s0.force_newline, follows_colon |-> s0.after_block,
         empty |-> (s0.result = <<>>), pos |-> Pos(s0),
         depth |-> s0.indentation,
         count |-> s1.new_lines, after |-> s1.line_number])]

\* newline(node) of a simple statement, newline(node, body=True) of a header.
StatementStart(s, p, node) == Marked(s, Newline(s, TRUE, node, 0, FALSE), p, "simple", node)
HeaderStart(s, p, kind, node) == Marked(s, Newline(s, TRUE, node, 0, TRUE), p, kind, node)

---------------------------------------------------------------------------
\* Statement handlers.

\* generic_visit(node): every child node, in field order.
Children(n, p) ==
    [i \in 1..Len(n.kids) |-> V(n.kids[i], Kid(p, i))]
    \o [i \in 1..Len(n.body) |-> V(n.body[i], InBody(p, i))]
    \o [i \in 1..Len(n.orelse) |-> V(n.orelse[i], InOrelse(p, i))]
    \o [i \in 1..Len(n.decorator_list) |-> V(n.decorator_list[i], InDecorators(p, i))]

HandledKinds ==
    {"Module", "Expr", "Pass", "Raise", "If", "FunctionDef", "Name", "BinOp",
     "BoolOp", "Compare", "UnaryOp", "IfExp", "Lambda", "Call", "List"}

\* NodeVisitor.visit finds no visit_<Kind> and falls back to generic_visit.
Visit_Unknown ==
    /\ Running
    /\ Top.t = "visit"
    /\ Top.n.kind \notin HandledKinds
    /\ Continue(Self, Children(Top.n, Top.p))
    /\ UNCHANGED saved_b

Visit_Module ==
    /\ Visiting("Module")
    /\ Continue(Self, Children(Top.n, Top.p) \o <<Step("module_end")>>)
    /\ UNCHANGED saved_b

\* visit_Module after generic_visit.
Step_ModuleEnd ==
    /\ At("module_end")
    /\ Continue([Write(Self, "\n") EXCEPT !.line_number = @ + 1], <<>>)
    /\ UNCHANGED saved_b

Visit_Expr ==
    /\ Visiting("Expr")
    /\ Continue(StatementStart(Self, Top.p, Top.n), Children(Top.n, Top.p))
    /\ UNCHANGED saved_b

Visit_Pass ==
    /\ Visiting("Pass")
    /\ Continue(Write(StatementStart(Self, Top.p, Top.n), "pass"), <<>>)
    /\ UNCHANGED saved_b

\* The value of a field of a Raise node and its path; absent: not populated.
Populated(n, f) == \E i \in 1..Len(n.ops) : n.ops[i] = f
FieldIndex(n, f) == CHOOSE i \in 1..Len(n.ops) : n.ops[i] = f
VisitField(n, p, f) == V(n.kids[FieldIndex(n, f)], Kid(p, FieldIndex(n, f)))

RaiseForm(n, p) ==
    IF Populated(n, "exc")
    THEN <<W("raise "), VisitField(n, p, "exc")>>
         \o (IF Populated(n, "cause")
             THEN <<W(" from "), VisitField(n, p, "cause")>> ELSE <<>>)
    ELSE IF Populated(n, "type")
    THEN <<W("raise "), VisitField(n, p, "type")>>
         \o (IF Populated(n, "inst")
             THEN <<W(", "), VisitField(n, p, "inst")>> ELSE <<>>)
         \o (IF Populated(n, "tback")
             THEN <<W(", "), VisitField(n, p, "tback")>> ELSE <<>>)
    ELSE <<W("raise")>>

Visit_Raise ==
    /\ Visiting("Raise")
    /\ LET form == RaiseForm(Top.n, Top.p)
       IN  Continue(Write(StatementStart(Self, Top.p, Top.n), Head(form).a),
                    Tail(form))
    /\ UNCHANGED saved_b

\* body(statements): the item names the node and, in a, the field that
\* holds the statements.
BodyOf(n, p, field) == Item("body", n, p, field)

Step_Body ==
    /\ At("body")
    /\ LET n == Top.n
           p == Top.p
           statements == IF Top.a = "body" THEN n.body ELSE n.orelse
           force == \/ \E i \in 1..Len(statements) : statements[i].kind \in BLOCK_NODES
                    \/ /\ \E i \in 1..Len(statements) : statements[i].lineno > line_number
                       /\ correct_line_numbers
       IN  Continue([Self EXCEPT !.force_newline = force,
                                 !.indentation = @ + 1,
                                 !.after_block = ~force],
                    [i \in 1..Len(statements) |->
                       V(statements[i],
                         IF Top.a = "body" THEN InBody(p, i) ELSE InOrelse(p, i))]
                    \o <<Step("body_end")>>)
    /\ UNCHANGED saved_b

\* body(statements) after its loop, without the dedent.
Step_BodyEndNoDedent ==
    /\ At("body_end")
    /\ Continue([Self EXCEPT !.force_newline = TRUE,
                             !.after_block = FALSE], <<>>)
    /\ UNCHANGED saved_b

\* body(statements) after its loop, without setting force_newline.
Step_BodyEndNoForce ==
    /\ At("body_end")
    /\ Continue([Self EXCEPT !.indentation = @ - 1,
                             !.after_block = FALSE], <<>>)
    /\ UNCHANGED saved_b

\* body(statements) after its loop.
Step_BodyEnd ==
    /\ At("body_end")
    /\ Continue([Self EXCEPT !.indentation = @ - 1,
                             !.force_newline = TRUE,
                             !.after_block = FALSE], <<>>)
    /\ UNCHANGED saved_b

Visit_If ==
    /\ Visiting("If")
    /\ LET n == Top.n
           p == Top.p
       IN  Continue(Write(HeaderStart(Self, p, "header", n), "if "),
                    <<V(n.kids[1], Kid(p, 1)), W(":"), BodyOf(n, p, "body"),
                      Item("if_else", n, p, "")>>)
    /\ UNCHANGED saved_b

\* visit_If: one round of the `while True' loop, for the If node n whose
\* body has been rendered.
Step_IfElse ==
    /\ At("if_else")
    /\ LET n == Top.n
           p == Top.p
           else_ == n.orelse
       IN  IF Len(else_) = 1 /\ else_[1].kind = "If"
           THEN LET node == else_[1]
                    q == InOrelse(p, 1)
                IN  Continue(Write(HeaderStart(Self, q, "elif", node.kids[1]), "elif "),
                             <<V(node.kids[1], Kid(q, 1)), W(":"),
                               BodyOf(node, q, "body"), Item("if_else", node, q, "")>>)
           ELSE IF else_ # <<>>
           THEN Continue(Write(Marked(Self, Newline(Self, FALSE, NoNode, 0, TRUE),
                                      p, "else", NoNode), "else:"),
                         <<BodyOf(n, p, "orelse")>>)
           ELSE Continue(Self, <<>>)
    /\ UNCHANGED saved_b

Visit_FunctionDef ==
    /\ Visiting("FunctionDef")
    /\ LET n == Top.n
           p == Top.p
       IN  Continue(Newline(Self, FALSE, NoNode, 1, FALSE),
                    Concat([i \in 1..Len(n.decorator_list) |->
                              <<Item("decorator", n.decorator_list[i],
                                     InDecorators(p, i), "")>>])
                    \o <<Item("def", n, p, "")>>)
    /\ UNCHANGED saved_b

\* decorators(node): one round of its loop.
Step_Decorator ==
    /\ At("decorator")
    /\ LET forced == [Self EXCEPT !.force_newline = TRUE]
           s1 == Marked(forced, Newline(forced, TRUE, Top.n, 0, FALSE),
                        Top.p, "decorator", Top.n)
       IN  Continue(Write(s1, "@"), <<V(Top.n, Top.p)>>)
    /\ UNCHANGED saved_b

\* visit_FunctionDef after decorators(node).
Step_Def ==
    /\ At("def")
    /\ LET n == Top.n
           p == Top.p
           s1 == Write(HeaderStart(Self, p, "header", n),
                       "def " \o n.ops[1] \o "(")
       IN  /\ saved_b' = <<s1.can_newline>> \o saved_b
           /\ Continue([s1 EXCEPT !.can_newline = TRUE],
                       Signature(n, p, Len(n.kids) - nargsOf(n))
                       \o <<W("):"), BodyOf(n, p, "body")>>)

\* process(): the visit is over; join the buffer, clear it, return.
Finish ==
    /\ status = "running"
    /\ todo = <<>>
    /\ status' = "returned"
    /\ output' = Join(result)
    /\ result' = <<>>
    /\ UNCHANGED <<tree, todo, saved_b, add_line_information,
                   correct_line_numbers, indentation, new_lines,
                   precedence_stack, precedence_ltr, line_number, can_newline,
                   after_block, force_newline, paren_stack, paren_pairs,
                   parens, breaks, marks>>

---------------------------------------------------------------------------
\* to_source(node, indent_with, add_line_information, correct_line_numbers)
\* and SourceGenerator.__init__.

ToSource(node, addLines, correctLines) ==
    /\ tree = node
    /\ status = "running"
    /\ output = <<>>
    /\ todo = <<V(node, <<>>)>>
    /\ saved_b = <<>>
    /\ add_line_information = addLines
    /\ correct_line_numbers = correctLines
    /\ result = <<>>
    /\ indentation = 0
    /\ new_lines = 0
    /\ precedence_stack = <<0>>
    /\ precedence_ltr = <<"None">>
    /\ line_number = (IF correctLines /\ node.lineno # 0 THEN node.lineno ELSE 1)
    /\ can_newline = FALSE
    /\ after_block = TRUE
    /\ force_newline = FALSE
    /\ paren_stack = <<0>>
    /\ paren_pairs = {}
    /\ parens = {}
    /\ breaks = <<>>
    /\ marks = <<>>

---------------------------------------------------------------------------
\* Expressions rendered on their own, in free layout: every tree with at
\* most MaxOps operator nodes over the name `a'.

ExprBinOps == {"Add", "Sub", "Mult", "Pow"}
ExprUnaryOps == {"USub", "Not"}
ExprBoolOps == {"And", "Or"}

RECURSIVE ExprsOfSize(_)
ExprsOfSize(k) ==
    IF k = 0
    THEN {Name("a", 0)}
    ELSE LET Sub1 == ExprsOfSize(k - 1)
             Pairs == UNION {ExprsOfSize(i) \X ExprsOfSize(k - 1 - i) : i \in 0..(k - 1)}
             Triples == UNION {UNION {ExprsOfSize(i) \X ExprsOfSize(j)
                                        \X ExprsOfSize(k - 1 - i - j) :
                                      j \in 0..(k - 1 - i)} : i \in 0..(k - 1)}
         IN  {UnaryOp(op, t, 0) : op \in ExprUnaryOps, t \in Sub1}
             \cup {BinOp(op, q[1], q[2], 0) : op \in ExprBinOps, q \in Pairs}
             \cup {BoolOp(op, q, 0) : op \in ExprBoolOps, q \in Pairs}
             \cup {Compare(<<"Lt">>, q, 0) : q \in Pairs}
             \cup {Compare(<<"Lt", "Eq">>, q, 0) : q \in Triples}
             \cup {IfExp(q[1], q[2], q[3], 0) : q \in Triples}
             \cup {Lambda(<<>>, <<>>, t, 0) : t \in Sub1}
             \cup {Lambda(<<Name("x", 0)>>, <<q[1]>>, q[2], 0) : q \in Pairs}
             \cup {Call(t, <<>>, 0) : t \in Sub1}
             \cup {Call(q[1], <<q[2]>>, 0) : q \in Pairs}
             \cup {List(<<t>>, 0) : t \in Sub1}

ExprTrees == UNION {ExprsOfSize(k) : k \in 0..MaxOps}

InitExpr == \E t \in ExprTrees : ToSource(t, FALSE, FALSE)

NextExpr ==
    \/ Visit_Name
    \/ Visit_BinOp
    \/ Visit_BoolOp
    \/ Visit_Compare
    \/ Visit_UnaryOp
    \/ Visit_IfExp
    \/ Visit_Lambda
    \/ Visit_Call
    \/ Visit_List
    \/ Step_Write
    \/ Step_MaybeBreak
    \/ Step_PrecMiddle
    \/ Step_PrecEnd
    \/ Step_EnterBracket
    \/ Step_ExitBracket
    \/ Finish

SpecExpr == InitExpr /\ [][NextExpr]_vars

---------------------------------------------------------------------------
\* Modules: up to MaxStmts statements recorded on lines 1..MaxLine: runs
\* of `pass' on any lines, and one statement drawn from every kind below, on
\* any line, among `pass' statements on the first or the last line.
\* Sub-expressions are recorded on their statement's line l or on the next
\* one.

Lines == 1..MaxLine

A(l) == Name("a", l)

ExprsAt(l) ==
    {A(l), A(l + 1),
     BinOp("Add", A(l), A(l + 1), l),
     BinOp("Sub", A(l), BinOp("Sub", A(l), A(l), l), l),
     BinOp("MatMult", A(l), A(l), l),
     UnaryOp("USub", A(l), l),
     BoolOp("And", <<A(l), A(l + 1)>>, l),
     Compare(<<"Lt">>, <<A(l), A(l + 1)>>, l),
     IfExp(A(l), A(l), A(l + 1), l),
     Call(A(l), <<A(l)>>, l),
     Call(A(l), <<A(l + 1)>>, l),
     Call(A(l), <<Lambda(<<Name("x", l)>>, <<A(l + 1)>>, A(l), l)>>, l),
     List(<<A(l), A(l + 1)>>, l),
     Lambda(<<Name("x", l)>>, <<A(l)>>, A(l), l),
     Lambda(<<Name("x", l)>>, <<A(l + 1)>>, A(l), l),
     Unknown(<<A(l)>>, l),
     Unknown(<<>>, l)}

RaiseFields ==
    {<<>>, <<"exc">>, <<"cause">>, <<"exc", "cause">>,
     <<"type">>, <<"inst">>, <<"tback">>, <<"type", "inst">>,
     <<"type", "tback">>, <<"inst", "tback">>, <<"type", "inst", "tback">>}

SimpleAt(l) ==
    {Expr(e, l) : e \in ExprsAt(l)}
    \cup {RaiseStmt(f, [i \in 1..Len(f) |-> A(l)], l) : f \in RaiseFields}

PassesAt(l) ==
    LET P == {Pass(l), Pass(l + 1)}
    IN  {<<x>> : x \in P} \cup {<<x, y>> : x, y \in P}

ElsesAt(l) ==
    {<<>>, <<Pass(l)>>, <<Pass(l + 1)>>}
    \cup UNION {{<<If(A(k), <<Pass(k)>>, e, k)>> : e \in {<<>>, <<Pass(k)>>}} :
                 k \in {l, l + 1}}

CompoundAt(l) ==
    {If(A(l), b, e, l) : b \in PassesAt(l), e \in ElsesAt(l)}
    \cup {If(A(l + 1), <<Pass(l)>>, <<>>, l),
          If(A(l + 1), <<Pass(l), Pass(l + 1)>>, <<>>, l + 1),
          If(A(l), <<If(A(l), <<Pass(l)>>, <<>>, l)>>, <<>>, l),
          If(A(l), <<If(A(l), <<Pass(l)>>, <<Pass(l)>>, l)>>, <<>>, l),
          If(A(l), <<Expr(A(l + 1), l)>>, <<>>, l),
          FunctionDef("f", <<>>, <<>>, <<A(l)>>, <<Pass(l + 2)>>, l + 1)}
    \cup {FunctionDef("f", args[1], args[2], d, b, l) :
            args \in {<<<<>>, <<>>>>, <<<<Name("x", l)>>, <<A(l + 1)>>>>},
            d \in {<<>>, <<A(l)>>, <<A(l + 1)>>},
            b \in {<<Pass(l)>>, <<Pass(l + 1)>>}}

\* Runs of k `pass' statements.
RECURSIVE PassRuns(_)
PassRuns(k) ==
    IF k = 0 THEN {<<>>}
    ELSE {Append(r, Pass(l)) : r \in PassRuns(k - 1), l \in Lines}

\* ... with every statement on the first or the last line.
RECURSIVE EdgeRuns(_)
EdgeRuns(k) ==
    IF k = 0 THEN {<<>>}
    ELSE {Append(r, Pass(l)) : r \in EdgeRuns(k - 1), l \in {1, MaxLine}}

Bodies ==
    UNION {PassRuns(k) : k \in 1..MaxStmts}
    \cup UNION {UNION {{before \o <<x>> \o after :
                          before \in EdgeRuns(i), after \in EdgeRuns(k - 1 - i),
                          x \in UNION {SimpleAt(l) \cup CompoundAt(l) : l \in Lines}} :
                       i \in 0..(k - 1)} : k \in 1..MaxStmts}

Modules == {Module(b) : b \in Bodies}

Init ==
    \E m \in Modules, mode \in {<<FALSE, FALSE>>, <<TRUE, FALSE>>, <<FALSE, TRUE>>} :
        ToSource(m, mode[1], mode[2])

Next ==
    \/ Visit_Module
    \/ Visit_Expr
    \/ Visit_Pass
    \/ Visit_Raise
    \/ Visit_If
    \/ Visit_FunctionDef
    \/ Visit_Unknown
    \/ Visit_Name
    \/ Visit_BinOp
    \/ Visit_BoolOp
    \/ Visit_Compare
    \/ Visit_UnaryOp
    \/ Visit_IfExp
    \/ Visit_Lambda
    \/ Visit_Call
    \/ Visit_List
    \/ Step_Write
    \/ Step_MaybeBreak
    \/ Step_PrecMiddle
    \/ Step_PrecEnd
    \/ Step_EnterBracket
    \/ Step_ExitBracket
    \/ Step_Body
    \/ Step_BodyEnd
    \/ Step_IfElse
    \/ Step_Decorator
    \/ Step_Def
    \/ Step_ModuleEnd
    \/ Finish

Spec == Init /\ [][Next]_vars

---------------------------------------------------------------------------
\* Re-parsing rendered text: the language's expression grammar, by
\* recursive descent over the tokens.  Levels and associativity are those
\* of the grammar, not of the renderer's tables:
\*   test:       or_test ['if' or_test 'else' test] | lambdef
\*   or_test:    and_test ('or' and_test)*
\*   and_test:   not_test ('and' not_test)*
\*   not_test:   'not' not_test | comparison
\*   comparison: expr (comp_op expr)*
\*   expr .. term: six left-associative binary levels
\*   factor:     ('+'|'-'|'~') factor | power
\*   power:      atom trailer* ['**' factor]
\*   atom:       '(' test ')' | '[' [test (',' test)*] ']' | NAME
\*   lambdef:    'lambda' [NAME ['=' test] (',' NAME ['=' test])*] ':' test
\* A parse yields [ok, t, i]: the tree and the position after it.

GrammarBinary ==
    [tok \in {" | ", " ^ ", " & ", " << ", " >> ", " + ", " - ",
              " * ", " / ", " // ", " % "} |->
        CASE tok = " | " -> <<1, "BitOr">>
          [] tok = " ^ " -> <<2, "BitXor">>
          [] tok = " & " -> <<3, "BitAnd">>
          [] tok = " << " -> <<4, "LShift">>
          [] tok = " >> " -> <<4, "RShift">>
          [] tok = " + " -> <<5, "Add">>
          [] tok = " - " -> <<5, "Sub">>
          [] tok = " * " -> <<6, "Mult">>
          [] tok = " / " -> <<6, "Div">>
          [] tok = " // " -> <<6, "FloorDiv">>
          [] tok = " % " -> <<6, "Mod">>]

GrammarUnary == [tok \in {"-", "+", "~"} |->
                    CASE tok = "-" -> "USub" [] tok = "+" -> "UAdd" [] tok = "~" -> "Invert"]

GrammarCompare ==
    [tok \in {" == ", " > ", " >= ", " in ", " is ", " is not ", " < ",
              " <= ", " != ", " not in "} |->
        CASE tok = " == " -> "Eq" [] tok = " > " -> "Gt" [] tok = " >= " -> "GtE"
          [] tok = " in " -> "In" [] tok = " is " -> "Is" [] tok = " is not " -> "IsNot"
          [] tok = " < " -> "Lt" [] tok = " <= " -> "LtE" [] tok = " != " -> "NotEq"
          [] tok = " not in " -> "NotIn"]

GrammarNames == {"a", "x"}

Tok(ts, i) == IF i >= 1 /\ i <= Len(ts) THEN ts[i] ELSE "<EOF>"

Parsed(t, i) == [ok |-> TRUE, t |-> t, i |-> i]
ParsedList(l, i) == [ok |-> TRUE, l |-> l, i |-> i]
NoParse == [ok |-> FALSE, t |-> NoNode, i |-> 0]
NoParseList == [ok |-> FALSE, l |-> <<>>, i |-> 0]

RECURSIVE ParseTest(_, _)
RECURSIVE ParseLambda(_, _)
RECURSIVE ParseParams(_, _, _, _)
RECURSIVE ParseOrTest(_, _)
RECURSIVE ParseOrRest(_, _, _)
RECURSIVE ParseAndTest(_, _)
RECURSIVE ParseAndRest(_, _, _)
RECURSIVE ParseNotTest(_, _)
RECURSIVE ParseComparison(_, _)
RECURSIVE ParseCompareRest(_, _, _, _)
RECURSIVE ParseBinary(_, _, _)
RECURSIVE ParseBinaryRest(_, _, _, _)
RECURSIVE ParseFactor(_, _)
RECURSIVE ParsePower(_, _)
RECURSIVE ParseTrailers(_, _, _)
RECURSIVE ParseAtom(_, _)
RECURSIVE ParseTestList(_, _, _)

ParseTest(ts, i) ==
    IF Tok(ts, i) = "lambda "
    THEN ParseLambda(ts, i)
    ELSE LET a == ParseOrTest(ts, i)
         IN  IF ~a.ok THEN NoParse
             ELSE IF Tok(ts, a.i) # " if " THEN a
             ELSE LET c == ParseOrTest(ts, a.i + 1)
                  IN  IF ~c.ok \/ Tok(ts, c.i) # " else " THEN NoParse
                      ELSE LET e == ParseTest(ts, c.i + 1)
                           IN  IF ~e.ok THEN NoParse
                               ELSE Parsed(IfExp(c.t, a.t, e.t, 0), e.i)

\* The parameters from position i on, up to the ':'.
ParseParams(ts, args, defaults, i) ==
    IF Tok(ts, i) = ": "
    THEN [ok |-> TRUE, args |-> args, defaults |-> defaults, i |-> i + 1]
    ELSE IF Tok(ts, i) \notin GrammarNames
    THEN [ok |-> FALSE, args |-> <<>>, defaults |-> <<>>, i |-> 0]
    ELSE LET arg == Name(Tok(ts, i), 0)
             d == IF Tok(ts, i + 1) = "=" THEN ParseTest(ts, i + 2)
                  ELSE NoParse
             after == IF Tok(ts, i + 1) = "=" THEN d.i ELSE i + 1
             next == IF Tok(ts, after) = ", " THEN after + 1 ELSE after
         IN  IF Tok(ts, i + 1) = "=" /\ ~d.ok
             THEN [ok |-> FALSE, args |-> <<>>, defaults |-> <<>>, i |-> 0]
             ELSE IF Tok(ts, after) \notin {", ", ": "}
             THEN [ok |-> FALSE, args |-> <<>>, defaults |-> <<>>, i |-> 0]
             ELSE ParseParams(ts, Append(args, arg),
                              IF Tok(ts, i + 1) = "=" THEN Append(defaults, d.t)
                              ELSE defaults,
                              next)

ParseLambda(ts, i) ==
    LET ps == ParseParams(ts, <<>>, <<>>, i + 1)
    IN  IF ~ps.ok THEN NoParse
        ELSE LET b == ParseTest(ts, ps.i)
             IN  IF ~b.ok THEN NoParse
                 ELSE Parsed(Lambda(ps.args, ps.defaults, b.t, 0), b.i)

ParseOrTest(ts, i) ==
    LET a == ParseAndTest(ts, i)
    IN  IF ~a.ok THEN NoParse ELSE ParseOrRest(ts, <<a.t>>, a.i)

ParseOrRest(ts, values, i) ==
    IF Tok(ts, i) = " or "
    THEN LET a == ParseAndTest(ts, i + 1)
         IN  IF ~a.ok THEN NoParse ELSE ParseOrRest(ts, Append(values, a.t), a.i)
    ELSE Parsed(IF Len(values) = 1 THEN values[1] ELSE BoolOp("Or", values, 0), i)

ParseAndTest(ts, i) ==
    LET a == ParseNotTest(ts, i)
    IN  IF ~a.ok THEN NoParse ELSE ParseAndRest(ts, <<a.t>>, a.i)

ParseAndRest(ts, values, i) ==
    IF Tok(ts, i) = " and "
    THEN LET a == ParseNotTest(ts, i + 1)
         IN  IF ~a.ok THEN NoParse ELSE ParseAndRest(ts, Append(values, a.t), a.i)
    ELSE Parsed(IF Len(values) = 1 THEN values[1] ELSE BoolOp("And", values, 0), i)

ParseNotTest(ts, i) ==
    IF Tok(ts, i) = "not "
    THEN LET a == ParseNotTest(ts, i + 1)
         IN  IF ~a.ok THEN NoParse ELSE Parsed(UnaryOp("Not", a.t, 0), a.i)
    ELSE ParseComparison(ts, i)

ParseComparison(ts, i) ==
    LET a == ParseBinary(ts, i, 1)
    IN  IF ~a.ok THEN NoParse ELSE ParseCompareRest(ts, <<>>, <<a.t>>, a.i)

ParseCompareRest(ts, cmpops, operands, i) ==
    IF Tok(ts, i) \in DOMAIN GrammarCompare
    THEN LET a == ParseBinary(ts, i + 1, 1)
         IN  IF ~a.ok THEN NoParse
             ELSE ParseCompareRest(ts, Append(cmpops, GrammarCompare[Tok(ts, i)]),
                                   Append(operands, a.t), a.i)
    ELSE Parsed(IF cmpops = <<>> THEN operands[1] ELSE Compare(cmpops, operands, 0), i)

\* One of the six left-associative binary levels (1: '|' ... 6: '*').
ParseBinary(ts, i, level) ==
    IF level > 6
    THEN ParseFactor(ts, i)
    ELSE LET a == ParseBinary(ts, i, level + 1)
         IN  IF ~a.ok THEN NoParse ELSE ParseBinaryRest(ts, level, a.t, a.i)

ParseBinaryRest(ts, level, left, i) ==
    IF Tok(ts, i) \in DOMAIN GrammarBinary /\ GrammarBinary[Tok(ts, i)][1] = level
    THEN LET r == ParseBinary(ts, i + 1, level + 1)
         IN  IF ~r.ok THEN NoParse
             ELSE ParseBinaryRest(ts, level,
                                  BinOp(GrammarBinary[Tok(ts, i)][2], left, r.t, 0), r.i)
    ELSE Parsed(left, i)

ParseFactor(ts, i) ==
    IF Tok(ts, i) \in DOMAIN GrammarUnary
    THEN LET a == ParseFactor(ts, i + 1)
         IN  IF ~a.ok THEN NoParse
             ELSE Parsed(UnaryOp(GrammarUnary[Tok(ts, i)], a.t, 0), a.i)
    ELSE ParsePower(ts, i)

ParsePower(ts, i) ==
    LET a == ParseAtom(ts, i)
    IN  IF ~a.ok THEN NoParse
        ELSE LET b == ParseTrailers(ts, a.t, a.i)
             IN  IF ~b.ok THEN NoParse
                 ELSE IF Tok(ts, b.i) # " ** " THEN b
                 ELSE LET f == ParseFactor(ts, b.i + 1)
                      IN  IF ~f.ok THEN NoParse
                          ELSE Parsed(BinOp("Pow", b.t, f.t, 0), f.i)

\* test (',' test)* up to the closing token.
ParseTestList(ts, close, i) ==
    IF Tok(ts, i) = close
    THEN ParsedList(<<>>, i + 1)
    ELSE LET a == ParseTest(ts, i)
         IN  IF ~a.ok THEN NoParseList
             ELSE IF Tok(ts, a.i) = close THEN ParsedList(<<a.t>>, a.i + 1)
             ELSE IF Tok(ts, a.i) # ", " THEN NoParseList
             ELSE LET rest == ParseTestList(ts, close, a.i + 1)
                  IN  IF ~rest.ok THEN NoParseList
                      ELSE ParsedList(<<a.t>> \o rest.l, rest.i)

ParseTrailers(ts, t, i) ==
    IF Tok(ts, i) = "("
    THEN LET args == ParseTestList(ts, ")", i + 1)
         IN  IF ~args.ok THEN NoParse
             ELSE ParseTrailers(ts, Call(t, args.l, 0), args.i)
    ELSE Parsed(t, i)

ParseAtom(ts, i) ==
    IF Tok(ts, i) = "("
    THEN LET a == ParseTest(ts, i + 1)
         IN  IF ~a.ok \/ Tok(ts, a.i) # ")" THEN NoParse ELSE Parsed(a.t, a.i + 1)
    ELSE IF Tok(ts, i) = "["
    THEN LET elts == ParseTestList(ts, "]", i + 1)
         IN  IF ~elts.ok THEN NoParse ELSE Parsed(List(elts.l, 0), elts.i)
    ELSE IF Tok(ts, i) \in GrammarNames
    THEN Parsed(Name(Tok(ts, i), 0), i + 1)
    ELSE NoParse

\* The tree of a whole text; NoNode when it is not an expression.
Parse(ts) ==
    LET a == ParseTest(ts, 1)
    IN  IF a.ok /\ a.i = Len(ts) + 1 THEN a.t ELSE NoNode

\* Trees up to what re-parsing cannot tell apart and evaluation does not
\* either: `a and (b and c)', `(a and b) and c' and `a and b and c' (one
\* BoolOp of three values) are one tree.
RECURSIVE Normal(_)
Normal(t) ==
    LET ks == [i \in 1..Len(t.kids) |-> Normal(t.kids[i])]
        Spliced(k) == IF k.kind = "BoolOp" /\ k.ops = t.ops THEN k.kids ELSE <<k>>
    IN  IF t.kind = "BoolOp"
        THEN [t EXCEPT !.kids = Concat([i \in 1..Len(ks) |-> Spliced(ks[i])])]
        ELSE [t EXCEPT !.kids = ks]

SameTree(t, u) == Normal(t) = Normal(u)

\* The text without the tokens at positions i and j.
Without(ts, i, j) ==
    [k \in 1..(Len(ts) - 2) |->
        IF k < i THEN ts[k] ELSE IF k + 1 < j THEN ts[k + 1] ELSE ts[k + 2]]

---------------------------------------------------------------------------
\* Paths into a tree.

RECURSIVE NodeAt(_, _)
NodeAt(t, p) == IF p = <<>> THEN t ELSE NodeAt(Child(t, Head(p)), Tail(p))

RECURSIVE PathsOf(_)
PathsOf(t) ==
    {<<>>} \cup UNION {{<<c>> \o q : q \in PathsOf(Child(t, c))} : c \in ChildSteps(t)}

\* The nodes of the tree, as paths.
Nodes == PathsOf(tree)
KindAt(p) == NodeAt(tree, p).kind

Returned == status = "returned"

---------------------------------------------------------------------------
\* Properties of rendered expressions (under SpecExpr).

\* C1: re-parsing the text to_source returned for an expression tree, with
\* the grammar's precedence and associativity, gives the same tree: same
\* operators, same grouping of operands, for every child position, a
\* comparison inside a comparison included.
C1_RoundTrip == Returned => SameTree(Parse(output), tree)

\* C2: no parenthesis pair written by prec_start/prec_end is redundant:
\* the text without any one such pair re-parses to a different tree (or
\* does not parse).
C2_NoRedundantParens ==
    Returned =>
        \A pr \in paren_pairs :
            pr[1] > 0 => ~SameTree(Parse(Without(output, pr[1], pr[2])), tree)

\* The child c of n sits at n's own precedence level.
SameLevel(c, n) ==
    \/ /\ n.kind = "BinOp"
       /\ c.kind = "BinOp"
       /\ BINOP_SYMBOLS[c.ops[1]][2] = BINOP_SYMBOLS[n.ops[1]][2]
    \/ /\ n.kind = "IfExp"
       /\ c.kind = "IfExp"

\* The i-th child of n is on the side the grammar does not associate to:
\* the right operand of a left-associative operator, the left operand of
\* `**', the body or the test (kids 2 and 1) of a conditional.
NonAssociativeSide(n, i) ==
    IF n.kind = "BinOp"
    THEN IF n.ops[1] = "Pow" THEN i = 1 ELSE i = 2
    ELSE i \in {1, 2}

\* C8: a child at the precedence level of its two-sided parent is
\* parenthesized exactly when it is on the non-associative side: the right
\* operand of a left-associative binary operator, the left operand of `**',
\* the body or test of a conditional expression (never its else part).
C8_SameLevelParens ==
    Returned =>
        \A p \in Nodes \ {<<>>} :
            SameLevel(NodeAt(tree, p), NodeAt(tree, Front(p)))
            => (p \in parens <=> NonAssociativeSide(NodeAt(tree, Front(p)), Last(p)[2]))

\* `a - (a - a)' and the like were rendered: a right operand at the level
\* of its left-associative parent, in parentheses.
C8_Witness ==
    /\ Returned
    /\ \E p \in parens :
          /\ p # <<>>
          /\ KindAt(Front(p)) = "BinOp"
          /\ NodeAt(tree, Front(p)).ops[1] # "Pow"
          /\ SameLevel(NodeAt(tree, p), NodeAt(tree, Front(p)))
          /\ Last(p)[2] = 2

IsPrecEnd(item) == item.t = "prec_end"

\* C10: every prec_start is matched by one prec_end, last opened first
\* closed.  The two stacks have the same length, at least 1; the base entry
\* stays what __init__ made it; every entry above it has its prec_end
\* pending; after the render both stacks are back to one entry; a prec_end
\* writes ')' exactly when its prec_start wrote '(', after a prec_middle
\* too, and the pairs written nest.
C10_PrecedenceScopes ==
    /\ Len(precedence_stack) = Len(precedence_ltr)
    /\ Len(precedence_stack) >= 1
    /\ precedence_stack[1] = 0
    /\ precedence_ltr[1] = "None"
    /\ status = "running"
       => Len(SelectSeq(todo, IsPrecEnd)) = Len(precedence_stack) - 1
    /\ Returned => precedence_stack = <<0>> /\ precedence_ltr = <<"None">>
    /\ \A pr \in paren_pairs : pr[1] > 0 <=> pr[2] > 0
    /\ Returned =>
          \A pr \in paren_pairs :
              pr[1] > 0 => /\ pr[1] < pr[2]
                           /\ output[pr[1]] = "("
                           /\ output[pr[2]] = ")"
    /\ Returned =>
          \A pr, qr \in paren_pairs :
              (pr[1] > 0 /\ pr[1] < qr[1] /\ qr[1] < pr[2]) => qr[2] < pr[2]

\* A binary operator (its entry adjusted by prec_middle) was rendered in
\* parentheses inside another precedence scope.
C10_Witness ==
    /\ Returned
    /\ \E p \in parens : KindAt(p) = "BinOp" /\ Len(p) >= 1
    /\ \E pr \in paren_pairs : pr[1] > 0 /\ pr[2] > 0

---------------------------------------------------------------------------
\* Properties of rendered modules (under Spec).

\* C3: a tree holding a node whose kind has no visit_<Kind> handler is not
\* rendered: to_source returns no text for it.
C3_UnknownKindFails ==
    Returned => \A p \in Nodes : KindAt(p) \in HandledKinds

\* The populated fields of a Raise node form one of the statement's forms:
\* raise | raise exc [from cause] | raise type [, inst [, tback]].
ValidRaise(n) ==
    /\ Populated(n, "cause") => Populated(n, "exc")
    /\ Populated(n, "inst") => Populated(n, "type")
    /\ Populated(n, "tback") => Populated(n, "type")

\* C9: a raise statement whose populated fields match no valid form (inst
\* or tback without type, cause without exc) is reported as an error, never
\* rendered: to_source returns text only for trees whose raise statements
\* are all valid.
C9_InvalidRaiseFails ==
    Returned => \A p \in Nodes : KindAt(p) = "Raise" => ValidRaise(NodeAt(tree, p))

---------------------------------------------------------------------------
\* Layout in line-corrected mode (under Spec).

Corrected == correct_line_numbers /\ Returned

\* The number of consecutive newlines of the text from position pos on.
NewlinesAt(out, pos) ==
    LET stops == {k \in pos..(Len(out) + 1) : k > Len(out) \/ out[k] # "\n"}
    IN  (CHOOSE k \in stops : \A j \in stops : k <= j) - pos

\* The first piece of text from pos on that is neither newline nor indent.
FirstText(out, pos) ==
    LET found == {k \in pos..Len(out) : out[k] \notin {"\n", INDENT_WITH}}
    IN  IF found = {} THEN "" ELSE out[CHOOSE k \in found : \A j \in found : k <= j]

\* A subtree that renders no text: no node of it has a handler.
RECURSIVE Silent(_)
Silent(n) ==
    /\ n.kind \notin HandledKinds
    /\ \A c \in ChildSteps(n) : Silent(Child(n, c))

\* The statement of mark m writes text of its own.
Writes(m) ==
    (m.kind = "simple" /\ KindAt(m.p) = "Expr") => ~Silent(NodeAt(tree, m.p).kids[1])

TopLevel(p) == Len(p) = 1 /\ p[1][1] = "body"

\* C4 (as stated): between two consecutive top-level statements recorded
\* at L1 and L2 there are L2 - L1 newlines (L2 - L1 - 1 blank lines) if
\* L1 < L2, and exactly one newline if L2 <= L1.
C4_BlankLinesOrOneNewline ==
    Corrected =>
        \A j \in 1..(Len(marks) - 1) :
            (TopLevel(marks[j].p) /\ TopLevel(marks[j + 1].p) /\ Writes(marks[j + 1]))
            => NewlinesAt(output, marks[j + 1].pos)
                 = (IF marks[j].lineno < marks[j + 1].lineno
                    THEN marks[j + 1].lineno - marks[j].lineno
                    ELSE 1)

\* C4 (amended): a top-level simple statement recorded at L1 is followed
\* right away (believed line L1, nothing pending) by a statement that
\* starts at L2 (its first decorator's line, if decorated).  If L1 < L2
\* there are L2 - L1 newlines between them.  If L2 <= L1 a simple statement
\* follows on the same line after '; ', with no newline, and a compound
\* statement follows after exactly one newline (none for a header when
\* nothing has been rendered yet).
C4_TopLevelSpacing ==
    Corrected =>
        \A j \in 1..(Len(marks) - 1) :
            LET m1 == marks[j]
                m2 == marks[j + 1]
                gap == NewlinesAt(output, m2.pos)
            IN  (/\ TopLevel(m1.p)
                 /\ m1.kind = "simple"
                 /\ m2.kind # "else"
                 /\ Writes(m2)
                 /\ m2.before = m1.lineno
                 /\ m2.pending = 0)
                => IF m1.lineno < m2.lineno
                   THEN gap = m2.lineno - m1.lineno
                   ELSE IF m2.kind = "simple"
                   THEN gap = 0 /\ output[m2.pos] = "; "
                   ELSE IF m2.kind = "decorator"
                   THEN gap = 1
                   ELSE gap = (IF m2.empty THEN 0 ELSE 1)

\* Two simple top-level statements, the second recorded no later than the
\* first, were rendered on one line.
C4_Witness ==
    /\ Corrected
    /\ \E j \in 1..(Len(marks) - 1) :
          /\ TopLevel(marks[j].p)
          /\ TopLevel(marks[j + 1].p)
          /\ marks[j].kind = "simple"
          /\ marks[j + 1].kind = "simple"
          /\ marks[j + 1].lineno <= marks[j].lineno
          /\ marks[j + 1].before = marks[j].lineno
          /\ marks[j + 1].pending = 0
          /\ output[marks[j + 1].pos] = "; "

\* max(0, recorded line - believed current line + already pending)
ClampedDelta(m) == Max(0, m.lineno - m.before + m.pending)

\* The newlines newline() asks for: the clamped delta, but one where the
\* delta is zero and a newline is due all the same (a header after text, a
\* simple statement or decorator with force_newline set).
ExpectedNewlines(m) ==
    IF /\ ClampedDelta(m) = 0
       /\ IF m.kind \in {"header", "elif"} THEN ~m.empty ELSE m.forced
    THEN 1
    ELSE ClampedDelta(m)

\* C5 (as stated): the newlines emitted before each statement number
\* max(0, recorded line - believed current line + pending), and the believed
\* current line is then the statement's recorded line.
C5_ClampedDeltaNewlines ==
    Corrected =>
        \A j \in DOMAIN marks :
            marks[j].kind # "else"
            => /\ marks[j].count = ClampedDelta(marks[j])
               /\ marks[j].after = marks[j].lineno

\* C5 (amended): the newlines emitted before each statement number
\* max(0, recorded line - believed current line + pending), except that
\* exactly one is emitted when that number is zero and either the statement
\* is a compound header written after other text or force_newline is set;
\* the believed current line is then the statement's recorded line.
C5_NewlinesPerStatement ==
    Corrected =>
        \A j \in DOMAIN marks :
            marks[j].kind # "else"
            => /\ marks[j].count = ExpectedNewlines(marks[j])
               /\ Writes(marks[j])
                  => NewlinesAt(output, marks[j].pos) = ExpectedNewlines(marks[j])
               /\ marks[j].after = marks[j].lineno

\* A statement recorded two lines or more past the believed current line,
\* nothing pending, was rendered after that many newlines.
C5_Witness ==
    /\ Corrected
    /\ \E j \in DOMAIN marks :
          /\ marks[j].kind # "else"
          /\ ~marks[j].empty
          /\ marks[j].pending = 0
          /\ marks[j].lineno - marks[j].before >= 2
          /\ NewlinesAt(output, marks[j].pos) = marks[j].lineno - marks[j].before

HeaderKinds == {"header", "elif", "else"}
HeaderTexts == {"if ", "elif ", "else:"} \cup {"def " \o f \o "(" : f \in FunctionNames}

\* C6: the header of a compound statement (if, elif, else, def) starts on
\* a line of its own, whatever its recorded line: at least one newline
\* separates it from what was rendered before, unless nothing was.
C6_HeaderOnOwnLine ==
    Corrected =>
        \A j \in DOMAIN marks :
            (marks[j].kind \in HeaderKinds /\ ~marks[j].empty)
            => /\ NewlinesAt(output, marks[j].pos) >= 1
               /\ FirstText(output, marks[j].pos) \in HeaderTexts

\* A header recorded no later than the believed current line was rendered
\* after other text.
C6_Witness ==
    /\ Corrected
    /\ \E j \in DOMAIN marks :
          /\ marks[j].kind = "header"
          /\ ~marks[j].empty
          /\ marks[j].lineno - marks[j].before + marks[j].pending <= 0
          /\ NewlinesAt(output, marks[j].pos) = 1

\* C7: every line break maybe_break writes inside a statement is
\* backslash-escaped or is written while a bracket of the renderer is open,
\* and leaves the believed current line at the node's recorded line.
C7_BreaksKeepLogicalLine ==
    \A j \in DOMAIN breaks :
        /\ breaks[j].esc \/ breaks[j].open >= 1
        /\ breaks[j].line = breaks[j].lineno

\* The marks of the top-level statements j and k are consecutive ones.
TopLevelStatement(m) == TopLevel(m.p) /\ m.kind \in {"simple", "header"}
ConsecutiveTopLevel(j, k) ==
    /\ j < k
    /\ TopLevelStatement(marks[j])
    /\ TopLevelStatement(marks[k])
    /\ \A i \in (j + 1)..(k - 1) : ~TopLevelStatement(marks[i])

\* C11: across consecutive top-level statement boundaries the
\* believed current line never decreases, whatever the recorded lines are,
\* and the pending newline count is never negative.
C11_LineNumberMonotonic ==
    correct_line_numbers =>
        /\ new_lines >= 0
        /\ \A j, k \in DOMAIN marks :
              ConsecutiveTopLevel(j, k) => marks[j].after <= marks[k].after

IsBodyEnd(item) == item.t = "body_end"

\* The number of consecutive indent units of the text from position pos on.
IndentsAt(out, pos) ==
    LET stops == {k \in pos..(Len(out) + 1) : k > Len(out) \/ out[k] # INDENT_WITH}
    IN  (CHOOSE k \in stops : \A j \in stops : k <= j) - pos

\* The mark of the header (if, elif, def) of the node at path p.
IsHeaderOf(h, p) == h.p = p /\ h.kind \in {"header", "elif"}

\* C12: the indentation depth is never negative and moves only with
\* body(): it is the number of bodies entered and not yet left, so it rises
\* by one into a body, falls by one out of it, and is 0 after a complete
\* render.  The statements of one body are all written one level deeper
\* than their header (top-level ones at depth 0; an elif, an else and a
\* decorator at the depth of their header), and a statement that starts a
\* line is written after exactly that many indent units.
C12_IndentationMatched ==
    /\ indentation >= 0
    /\ status = "running" => indentation = Len(SelectSeq(todo, IsBodyEnd))
    /\ Returned => indentation = 0
    /\ \A j \in DOMAIN marks :
          LET m == marks[j]
          IN  /\ TopLevel(m.p) => m.depth = 0
              /\ \A i \in DOMAIN marks :
                    IsHeaderOf(marks[i], IF m.kind = "else" THEN m.p ELSE Front(m.p))
                    => m.depth = (IF m.kind \in {"simple", "header"}
                                  THEN marks[i].depth + 1
                                  ELSE marks[i].depth)
              /\ (Returned /\ Writes(m) /\ NewlinesAt(output, m.pos) >= 1)
                 => IndentsAt(output, m.pos + NewlinesAt(output, m.pos)) = m.depth

\* Two statements of one nested body were rendered on lines of their own,
\* both one level deep, and the depth is back to 0.
C12_Witness ==
    /\ Returned
    /\ indentation = 0
    /\ \E j, k \in DOMAIN marks :
          /\ j < k
          /\ Len(marks[j].p) = 2
          /\ Front(marks[j].p) = Front(marks[k].p)
          /\ marks[j].kind = "simple"
          /\ marks[k].kind = "simple"
          /\ marks[j].depth = 1
          /\ marks[k].depth = 1
          /\ NewlinesAt(output, marks[j].pos) >= 1
          /\ NewlinesAt(output, marks[k].pos) >= 1
          /\ IndentsAt(output, marks[k].pos + NewlinesAt(output, marks[k].pos)) = 1

\* The statement boundary k is the first one after the end of a block
\* body: the boundary before it lies deeper.
FollowsBlock(k) == k > 1 /\ marks[k - 1].depth > marks[k].depth

\* C13: in every layout mode, what is rendered first after the end of a
\* block body (a statement at the outer depth, a decorator, an elif or else
\* header) comes after at least one newline, whatever its recorded line:
\* it never shares a line with the last statement of the block.  For a
\* simple statement or decorator force_newline, set when the body ended, is
\* still set when newline() runs.
C13_NewlineAfterBlock ==
    \A k \in DOMAIN marks :
        FollowsBlock(k)
        => /\ marks[k].count >= 1
           /\ marks[k].kind \in {"simple", "decorator"} => marks[k].forced
           /\ (Returned /\ Writes(marks[k]))
              => NewlinesAt(output, marks[k].pos) >= 1

\* In line-corrected mode a simple statement recorded no later than the
\* believed current line followed a block and was put on a new line.
C13_Witness ==
    /\ Corrected
    /\ \E k \in DOMAIN marks :
          /\ FollowsBlock(k)
          /\ marks[k].kind = "simple"
          /\ ClampedDelta(marks[k]) = 0
          /\ NewlinesAt(output, marks[k].pos) = 1

\* The marks j and k belong to statements of one body, j to its first.
FirstOfBodyOf(j, k) ==
    /\ Len(marks[j].p) >= 2
    /\ marks[j].kind \in {"simple", "header"}
    /\ marks[k].kind \in {"simple", "header"}
    /\ Len(marks[k].p) = Len(marks[j].p)
    /\ Front(marks[k].p) = Front(marks[j].p)
    /\ Last(marks[k].p)[1] = Last(marks[j].p)[1]
    /\ Last(marks[j].p)[2] = 1
    /\ Last(marks[k].p)[2] > 1

\* C14: when the first statement of a block body is written on the line
\* of the block's header, after the colon, every later statement of that
\* body follows on that line after '; ': none starts a new line, whatever
\* the recorded lines of the body's statements are.
C14_BodyStaysOnHeaderLine ==
    Corrected =>
        \A j, k \in DOMAIN marks :
            (/\ FirstOfBodyOf(j, k)
             /\ Writes(marks[j])
             /\ Writes(marks[k])
             /\ marks[j].follows_colon
             /\ NewlinesAt(output, marks[j].pos) = 0)
            => /\ NewlinesAt(output, marks[k].pos) = 0
               /\ output[marks[k].pos] = "; "

\* Every expression below a statement or a decorator carries its line.
SubExpressionsCarryLine ==
    \A p \in Nodes :
        LET n == NodeAt(tree, p)
        IN  \A i \in 1..Len(n.kids) : n.kids[i].lineno = n.lineno

\* The recorded lines of the statements, decorators and elif headers, in
\* the order of rendering, start at 1 or later and strictly increase.
RecordedLinesIncrease ==
    /\ \A k \in DOMAIN marks : marks[k].kind # "else" => marks[k].lineno >= 1
    /\ \A j, k \in DOMAIN marks :
          (j < k /\ marks[j].kind # "else" /\ marks[k].kind # "else")
          => marks[j].lineno < marks[k].lineno

IsNewlineText(x) == x \in {"\n", "\\\n"}

\* The number of newline characters of the text before position pos.
NewlinesBefore(out, pos) == Len(SelectSeq(SubSeq(out, 1, pos - 1), IsNewlineText))

\* The output line (counted from 1) on which the text of mark m begins.
OutputLine(m) == 1 + NewlinesBefore(output, m.pos + NewlinesAt(output, m.pos))

\* C15: in line-corrected mode, when a module is rendered from line 1 and
\* the recorded lines of its statements, decorators and elif headers
\* strictly increase (sub-expressions carrying their statement's line),
\* each of them begins on the output line equal to its recorded line, and
\* the believed current line is that line; a function whose decorator is
\* recorded at line 1 included.
C15_RecordedLineIsOutputLine ==
    (Corrected /\ SubExpressionsCarryLine /\ RecordedLinesIncrease) =>
        \A k \in DOMAIN marks :
            (marks[k].kind # "else" /\ Writes(marks[k]))
            => /\ marks[k].after = marks[k].lineno
               /\ OutputLine(marks[k]) = marks[k].lineno

====
